---- MODULE Spec2Model ----
(***************************************************************************)
(* The Flask API layer of the text preprocessing service (src/app.py):     *)
(* the handlers clean_text (POST /api/clean), analyze_text (POST           *)
(* /api/analyze) and health_check (GET /health).                           *)
(*                                                                         *)
(* The five core operations of the preprocessor object (fetch_from_url,    *)
(* clean_gutenberg_text, normalize_text, get_text_statistics,              *)
(* create_summary) are the environment of the handlers: each call either   *)
(* raises or returns a value drawn from a small set.  Every call is        *)
(* recorded with its argument, every outcome with its value.               *)
(*                                                                         *)
(* Strings are sequences of one-character strings.                         *)
(***************************************************************************)
EXTENDS Integers, Sequences, FiniteSets, TLC

\* ---------------------------------------------------------------- bounds
MaxUrlLen == 5
MaxTextLen == 3
NumReq == 2

\* ------------------------------------------------------ program constants
CleanedTextLimit == 500
SummarySentences == 3
TxtExt == <<".", "t", "x", "t">>

MissingUrlMsg == <<"Missing 'url' field in request.">>
NotTxtMsg == <<"URL must point to a .txt file (e.g., Project Gutenberg).">>
MissingTextMsg == <<"Missing 'text' field in request.">>
EmptyTextMsg == <<"Provided text is empty.">>
ServerErrorMsg(e) == <<"Server error: ", e>>

\* ------------------------------------------------------- Python strings
Alphabet == {" ", ".", "t", "x", "T"}

SeqsUpTo(A, n) == UNION {[1..k -> A] : k \in 0..n}

IsSpace(c) == c = " "

LowerChar(c) == IF c = "T" THEN "t" ELSE c

\* str.lower()
Lower(s) == [i \in 1..Len(s) |-> LowerChar(s[i])]

RECURSIVE LStrip(_)
LStrip(s) == IF s # <<>> /\ IsSpace(Head(s)) THEN LStrip(Tail(s)) ELSE s

RECURSIVE RStrip(_)
RStrip(s) ==
  IF s # <<>> /\ IsSpace(s[Len(s)]) THEN RStrip(SubSeq(s, 1, Len(s) - 1)) ELSE s

\* str.strip()
Strip(s) == RStrip(LStrip(s))

\* str.endswith(suffix)
EndsWith(s, suffix) ==
  /\ Len(s) >= Len(suffix)
  /\ SubSeq(s, Len(s) - Len(suffix) + 1, Len(s)) = suffix

\* s[:n]
Take(s, n) == SubSeq(s, 1, IF Len(s) < n THEN Len(s) ELSE n)

\* ------------------------------------------------------------ JSON bodies
\* A request body as request.get_json(force=True) sees it.
\*   jtype    "invalid" (no body, or a body that is no JSON), or the JSON type
\*   truthy   the Python truth value of the parsed value
\*   members  the field names f for which `f in data` is true: the keys of an
\*            object, the elements of an array, the substrings of a string
\*   vtype    the JSON type of data[f] for the keys of an object
\*   str      data[f] when it is a string
Fields == {"url", "text"}

JBody(jt, tr, ms, vt, s) ==
  [jtype |-> jt, truthy |-> tr, members |-> ms, vtype |-> vt, str |-> s]

ScalarBodies ==
  {JBody("invalid", FALSE, {}, "none", <<>>), JBody("null", FALSE, {}, "none", <<>>)}
  \cup {JBody(jt, tr, {}, "none", <<>>) : jt \in {"bool", "number"}, tr \in BOOLEAN}

ContainerBodies ==
  {JBody(jt, FALSE, {}, "none", <<>>) : jt \in {"string", "array", "object"}}
  \cup {JBody(jt, TRUE, ms, "none", <<>>) : jt \in {"string", "array"}, ms \in SUBSET Fields}
  \cup {JBody("object", TRUE, {}, "none", <<>>)}

NonStringFieldBodies ==
  {JBody("object", TRUE, ms, vt, <<>>) :
     ms \in (SUBSET Fields) \ {{}},
     vt \in {"null", "bool", "number", "array", "object"}}

UrlBodies(n) == {JBody("object", TRUE, {"url"}, "string", s) : s \in SeqsUpTo(Alphabet, n)}

TextBodies(n) ==
  {JBody("object", TRUE, ms, "string", s) :
     ms \in {{"text"}, {"url", "text"}}, s \in SeqsUpTo(Alphabet, n)}

Bodies ==
  ScalarBodies \cup ContainerBodies \cup NonStringFieldBodies
  \cup UrlBodies(MaxUrlLen) \cup TextBodies(MaxTextLen)

\* request.get_json(force=True) raises BadRequest when the body does not parse
GetJsonRaises(b) == b.jtype = "invalid"

\* `not data`
PyNot(b) == ~b.truthy

\* `f in data` raises TypeError on a bool or a number
PyInRaises(b) == b.jtype \in {"bool", "number"}

PyIn(f, b) == f \in b.members

\* data[f] raises TypeError when data is a string or an array
PyGetItemRaises(b) == b.jtype # "object"

\* data[f].strip() raises AttributeError unless data[f] is a string
PyStripRaises(b) == b.vtype # "string"

\* ------------------------------------------------- core operation results
Doc(n) == [i \in 1..n |-> IF (i + n) % 2 = 0 THEN "a" ELSE "b"]

NoStats == [word_count |-> -1]

Raise(e) == [raised |-> TRUE, exc |-> e, doc |-> <<>>, stats |-> NoStats]
RetDoc(d) == [raised |-> FALSE, exc |-> "", doc |-> d, stats |-> NoStats]
RetStats(s) == [raised |-> FALSE, exc |-> "", doc |-> <<>>, stats |-> s]

Outcomes ==
  [fetch |-> {Raise("NetworkError"), RetDoc(Doc(3)), RetDoc(Doc(4))},
   strip |-> {Raise("ProcessingError"), RetDoc(Doc(0)), RetDoc(Doc(2))},
   normalize |-> {Raise("ProcessingError")} \cup
                 {RetDoc(Doc(n)) : n \in {0, CleanedTextLimit - 1, CleanedTextLimit,
                                          CleanedTextLimit + 1}},
   statistics |-> {Raise("ZeroDivisionError"), RetStats([word_count |-> 0]),
                   RetStats([word_count |-> 6])},
   summary |-> {Raise("ProcessingError"), RetDoc(Doc(0)), RetDoc(Doc(5))},
   bodies |-> Bodies]

SmallOutcomes ==
  [fetch |-> {Raise("NetworkError"), RetDoc(Doc(3))},
   strip |-> {RetDoc(Doc(2))},
   normalize |-> {Raise("ProcessingError"), RetDoc(Doc(1)),
                  RetDoc(Doc(CleanedTextLimit + 1))},
   statistics |-> {RetStats([word_count |-> 6])},
   summary |-> {RetDoc(Doc(5))},
   bodies |-> {JBody("invalid", FALSE, {}, "none", <<>>),
               JBody("object", TRUE, {"url"}, "string", TxtExt),
               JBody("object", TRUE, {"text"}, "string", <<"t">>)}]

\* ------------------------------------------------------------------ state
VARIABLES
  preprocessor,  \* the module-level TextPreprocessor reference
  endpoint,      \* per request: the route it was sent to
  body,          \* per request: its body
  pc,            \* per request: the handler's position
  locals,        \* per request: the handler's local variables
  calls,         \* per request: the core operations invoked, with arguments
  rets,          \* per request: the outcomes of those invocations
  response       \* per request: the response returned

vars == <<preprocessor, endpoint, body, pc, locals, calls, rets, response>>

Req == 1..NumReq

NoBody == JBody("invalid", FALSE, {}, "none", <<>>)

NoLocals ==
  [url |-> <<>>, raw_text |-> <<>>, cleaned_text |-> <<>>, normalized_text |-> <<>>,
   stats |-> NoStats, summary |-> <<>>]

NoResponse ==
  [status |-> 0, success |-> FALSE, fields |-> {}, error |-> <<>>,
   cleaned_text |-> <<>>, statistics |-> NoStats, summary |-> <<>>, payload |-> <<>>]

Init ==
  /\ preprocessor = "TextPreprocessor()"
  /\ endpoint = [r \in Req |-> "none"]
  /\ body = [r \in Req |-> NoBody]
  /\ pc = [r \in Req |-> "idle"]
  /\ locals = [r \in Req |-> NoLocals]
  /\ calls = [r \in Req |-> <<>>]
  /\ rets = [r \in Req |-> <<>>]
  /\ response = [r \in Req |-> NoResponse]

\* -------------------------------------------------------------- responses
\* jsonify({"success": False, "error": msg}), 400
BadRequestResponse(msg) ==
  [NoResponse EXCEPT !.status = 400, !.success = FALSE,
                     !.fields = {"success", "error"}, !.error = msg]

\* the handlers' `except Exception as e` branch
ServerErrorResponseNoStatus(e) ==
  [NoResponse EXCEPT !.status = 200, !.success = FALSE,
                     !.fields = {"success", "error"}, !.error = ServerErrorMsg(e)]

ServerErrorResponse(e) ==
  [NoResponse EXCEPT !.status = 500, !.success = FALSE,
                     !.fields = {"success", "error"}, !.error = ServerErrorMsg(e)]

\* normalized_text[:500]
CleanedTextOffByOne(normalized_text) == Take(normalized_text, CleanedTextLimit + 1)

CleanedText(normalized_text) == Take(normalized_text, CleanedTextLimit)

CleanOkResponseWithError(loc) ==
  [NoResponse EXCEPT !.status = 200, !.success = TRUE,
                     !.fields = {"success", "cleaned_text", "statistics", "summary", "error"},
                     !.cleaned_text = CleanedText(loc.normalized_text),
                     !.statistics = loc.stats, !.summary = loc.summary]

CleanOkResponse(loc) ==
  [NoResponse EXCEPT !.status = 200, !.success = TRUE,
                     !.fields = {"success", "cleaned_text", "statistics", "summary"},
                     !.cleaned_text = CleanedText(loc.normalized_text),
                     !.statistics = loc.stats, !.summary = loc.summary]

AnalyzeOkResponse(loc) ==
  [NoResponse EXCEPT !.status = 200, !.success = TRUE,
                     !.fields = {"success", "statistics"}, !.statistics = loc.stats]

HealthResponse ==
  [NoResponse EXCEPT !.status = 200, !.fields = {"status", "message"},
                     !.payload = <<"healthy", "Text preprocessing service is running">>]

\* ------------------------------------------------------ request checking
\* url.lower().endswith(".txt")
HasTxtExtensionNoDot(url) == EndsWith(Lower(url), Tail(TxtExt))

HasTxtExtension(url) == EndsWith(Lower(url), TxtExt)

Answer(resp) == [proceed |-> FALSE, resp |-> resp, value |-> <<>>]
Proceed(v) == [proceed |-> TRUE, resp |-> NoResponse, value |-> v]

\* clean_text up to the fetch: the response it returns, or the url it goes on with
CleanCheck(b) ==
  IF GetJsonRaises(b) THEN Answer(ServerErrorResponse("BadRequest"))
  ELSE IF PyNot(b) THEN Answer(BadRequestResponse(MissingUrlMsg))
  ELSE IF PyInRaises(b) THEN Answer(ServerErrorResponse("TypeError"))
  ELSE IF ~PyIn("url", b) THEN Answer(BadRequestResponse(MissingUrlMsg))
  ELSE IF PyGetItemRaises(b) THEN Answer(ServerErrorResponse("TypeError"))
  ELSE IF PyStripRaises(b) THEN Answer(ServerErrorResponse("AttributeError"))
  ELSE IF ~HasTxtExtension(Strip(b.str)) THEN Answer(BadRequestResponse(NotTxtMsg))
  ELSE Proceed(Strip(b.str))

\* data["text"].strip()
RawTextUntrimmed(b) == b.str

RawText(b) == Strip(b.str)

\* analyze_text up to normalize: the response it returns, or the text it goes on with
AnalyzeCheck(b) ==
  IF GetJsonRaises(b) THEN Answer(ServerErrorResponse("BadRequest"))
  ELSE IF PyNot(b) THEN Answer(BadRequestResponse(MissingTextMsg))
  ELSE IF PyInRaises(b) THEN Answer(ServerErrorResponse("TypeError"))
  ELSE IF ~PyIn("text", b) THEN Answer(BadRequestResponse(MissingTextMsg))
  ELSE IF PyGetItemRaises(b) THEN Answer(ServerErrorResponse("TypeError"))
  ELSE IF PyStripRaises(b) THEN Answer(ServerErrorResponse("AttributeError"))
  ELSE IF RawText(b) = <<>> THEN Answer(BadRequestResponse(EmptyTextMsg))
  ELSE Proceed(RawText(b))

\* ------------------------------------------------------- handler locals
\* an assignment to a module-level name instead of a local one
SetGlobal(loc, r, name, v) == [q \in DOMAIN loc |-> [loc[q] EXCEPT ![name] = v]]

\* an assignment to a local variable of request r's handler invocation
SetLocal(loc, r, name, v) == [loc EXCEPT ![r][name] = v]

\* the arguments the handlers pass to the core operations
FetchArg(loc) == loc.url

StripArg(loc) == loc.raw_text

NormalizeArgRaw(loc) == loc.raw_text

NormalizeArg(loc) == loc.cleaned_text

StatisticsArg(loc) == loc.normalized_text

SummaryArg(loc) == loc.normalized_text

AnalyzeNormalizeArg(loc) == loc.raw_text

\* ---------------------------------------------------------------- steps
Respond(r, resp) ==
  /\ response' = [response EXCEPT ![r] = resp]
  /\ pc' = [pc EXCEPT ![r] = "done"]

Goto(r, label) ==
  /\ pc' = [pc EXCEPT ![r] = label]
  /\ UNCHANGED response

\* preprocessor.<op>(arg): the call is recorded with its outcome
Invoke(r, op, arg, n, out) ==
  /\ calls' = [calls EXCEPT ![r] = Append(@, [op |-> op, arg |-> arg, n |-> n])]
  /\ rets' = [rets EXCEPT ![r] = Append(@, out)]

\* a request arrives at one of the routes
Receive(r, env) ==
  /\ pc[r] = "idle"
  /\ \E ep \in {"clean", "analyze", "health"} :
       \E b \in (IF ep = "health" THEN {NoBody} ELSE env.bodies) :
         /\ endpoint' = [endpoint EXCEPT ![r] = ep]
         /\ body' = [body EXCEPT ![r] = b]
  /\ pc' = [pc EXCEPT ![r] = "start"]
  /\ UNCHANGED <<preprocessor, locals, calls, rets, response>>

health_check(r) ==
  /\ pc[r] = "start" /\ endpoint[r] = "health"
  /\ Respond(r, HealthResponse)
  /\ UNCHANGED <<preprocessor, endpoint, body, locals, calls, rets>>

\* clean_text, from get_json to the extension check
clean_text_check(r) ==
  /\ pc[r] = "start" /\ endpoint[r] = "clean"
  /\ LET c == CleanCheck(body[r]) IN
       IF c.proceed
         THEN /\ locals' = SetLocal(locals, r, "url", c.value)
              /\ Goto(r, "fetch")
         ELSE /\ Respond(r, c.resp)
              /\ UNCHANGED locals
  /\ UNCHANGED <<preprocessor, endpoint, body, calls, rets>>

\* one core call of a handler: on a raise the except branch answers, otherwise
\* the result is bound to `name` and the handler goes on at `next`
CoreStep(r, op, arg, n, outs, name, next) ==
  \E out \in outs :
    /\ Invoke(r, op, arg, n, out)
    /\ IF out.raised
         THEN /\ Respond(r, ServerErrorResponse(out.exc))
              /\ UNCHANGED locals
         ELSE /\ locals' = SetLocal(locals, r, name,
                                    IF op = "statistics" THEN out.stats ELSE out.doc)
              /\ Goto(r, next)
    /\ UNCHANGED <<preprocessor, endpoint, body>>

clean_text_fetch(r, env) ==
  /\ pc[r] = "fetch"
  /\ CoreStep(r, "fetch", FetchArg(locals[r]), 0, env.fetch, "raw_text", "strip")

clean_text_strip(r, env) ==
  /\ pc[r] = "strip"
  /\ CoreStep(r, "strip", StripArg(locals[r]), 0, env.strip, "cleaned_text", "normalize")

clean_text_normalize(r, env) ==
  /\ pc[r] = "normalize"
  /\ CoreStep(r, "normalize", NormalizeArg(locals[r]), 0, env.normalize,
              "normalized_text", "statistics")

clean_text_statistics(r, env) ==
  /\ pc[r] = "statistics"
  /\ CoreStep(r, "statistics", StatisticsArg(locals[r]), 0, env.statistics,
              "stats", "summary")

\* create_summary and the 200 response
clean_text_summary(r, env) ==
  /\ pc[r] = "summary"
  /\ \E out \in env.summary :
       /\ Invoke(r, "summary", SummaryArg(locals[r]), SummarySentences, out)
       /\ IF out.raised
            THEN /\ Respond(r, ServerErrorResponse(out.exc))
                 /\ UNCHANGED locals
            ELSE /\ locals' = SetLocal(locals, r, "summary", out.doc)
                 /\ Respond(r, CleanOkResponse([locals[r] EXCEPT !.summary = out.doc]))
  /\ UNCHANGED <<preprocessor, endpoint, body>>

\* analyze_text, from get_json to the empty-text check
analyze_text_check(r) ==
  /\ pc[r] = "start" /\ endpoint[r] = "analyze"
  /\ LET c == AnalyzeCheck(body[r]) IN
       IF c.proceed
         THEN /\ locals' = SetLocal(locals, r, "raw_text", c.value)
              /\ Goto(r, "a_normalize")
         ELSE /\ Respond(r, c.resp)
              /\ UNCHANGED locals
  /\ UNCHANGED <<preprocessor, endpoint, body, calls, rets>>

analyze_text_normalize(r, env) ==
  /\ pc[r] = "a_normalize"
  /\ CoreStep(r, "normalize", AnalyzeNormalizeArg(locals[r]), 0, env.normalize,
              "normalized_text", "a_statistics")

\* get_text_statistics and the 200 response
analyze_text_statistics(r, env) ==
  /\ pc[r] = "a_statistics"
  /\ \E out \in env.statistics :
       /\ Invoke(r, "statistics", StatisticsArg(locals[r]), 0, out)
       /\ IF out.raised
            THEN /\ Respond(r, ServerErrorResponse(out.exc))
                 /\ UNCHANGED locals
            ELSE /\ locals' = SetLocal(locals, r, "stats", out.stats)
                 /\ Respond(r, AnalyzeOkResponse([locals[r] EXCEPT !.stats = out.stats]))
  /\ UNCHANGED <<preprocessor, endpoint, body>>

Step(r, env) ==
  \/ Receive(r, env)
  \/ health_check(r)
  \/ clean_text_check(r)
  \/ clean_text_fetch(r, env)
  \/ clean_text_strip(r, env)
  \/ clean_text_normalize(r, env)
  \/ clean_text_statistics(r, env)
  \/ clean_text_summary(r, env)
  \/ analyze_text_check(r)
  \/ analyze_text_normalize(r, env)
  \/ analyze_text_statistics(r, env)

\* one request at a time, over every body and every core outcome
Next == Step(1, Outcomes)

Spec == Init /\ [][Next]_vars

\* concurrent requests, over a few bodies and core outcomes
NextConc == \E r \in Req : Step(r, SmallOutcomes)

SpecConc == Init /\ [][NextConc]_vars

\* ------------------------------------------------------- reading a run
Done(r) == pc[r] = "done"

IsApi(r) == endpoint[r] \in {"clean", "analyze"}

Ops(r) == [i \in 1..Len(calls[r]) |-> calls[r][i].op]

Raised(r) == \E i \in 1..Len(rets[r]) : rets[r][i].raised

IsPrefix(s, t) == Len(s) <= Len(t) /\ \A i \in 1..Len(s) : s[i] = t[i]

\* The text s, with the blanks around it dropped, ends in ".txt" in any case.
TrimmedEndsInTxt(s) ==
  \E j \in 4..Len(s) :
    /\ \A k \in (j + 1)..Len(s) : s[k] = " "
    /\ s[j] \in {"t", "T"}
    /\ s[j - 1] \in {"x", "X"}
    /\ s[j - 2] \in {"t", "T"}
    /\ s[j - 3] = "."

\* The text s holds a character that is no blank.
HasNonBlank(s) == \E k \in 1..Len(s) : s[k] # " "

\* The body is a JSON object that holds the field f with a string value.
HasStringField(b, f) == b.jtype = "object" /\ f \in b.members /\ b.vtype = "string"

\* A request the endpoint's contract accepts.
WellFormed(r) ==
  \/ /\ endpoint[r] = "clean"
     /\ HasStringField(body[r], "url")
     /\ TrimmedEndsInTxt(body[r].str)
  \/ /\ endpoint[r] = "analyze"
     /\ HasStringField(body[r], "text")
     /\ HasNonBlank(body[r].str)

\* ------------------------------------------------------------------ C1
\* C1: a request to /api/clean or /api/analyze ends with 200 when every core
\* operation succeeded, with 400 when the input is malformed, and with 500
\* only after a core operation was invoked and raised, for every body.
C1_StatusByCause ==
  \A r \in Req :
    (Done(r) /\ IsApi(r)) =>
      /\ response[r].status \in {200, 400, 500}
      /\ (response[r].status = 400) <=> ~WellFormed(r)
      /\ (response[r].status = 500) <=> (calls[r] # <<>> /\ Raised(r))
      /\ (response[r].status = 200) <=> (WellFormed(r) /\ ~Raised(r))

\* ------------------------------------------------------------------ C2
\* C2: in /api/clean the fetch is only invoked with a URL that, trimmed, ends
\* in ".txt" in any case; a request whose trimmed URL does not end in ".txt"
\* gets 400 with success false and invokes no core operation.
C2_FetchOnlyTxt ==
  \A r \in Req :
    endpoint[r] = "clean" =>
      /\ \A i \in 1..Len(calls[r]) :
           calls[r][i].op = "fetch" =>
             /\ TrimmedEndsInTxt(calls[r][i].arg)
             /\ calls[r][i].arg # <<>>
             /\ calls[r][i].arg[1] # " "
             /\ calls[r][i].arg[Len(calls[r][i].arg)] # " "
             /\ HasStringField(body[r], "url")
             /\ \E m \in 0..Len(body[r].str) :
                  /\ SubSeq(body[r].str, m + 1, m + Len(calls[r][i].arg)) = calls[r][i].arg
                  /\ \A k \in 1..m : body[r].str[k] = " "
                  /\ \A k \in (m + Len(calls[r][i].arg) + 1)..Len(body[r].str) :
                       body[r].str[k] = " "
      /\ (HasStringField(body[r], "url") /\ ~TrimmedEndsInTxt(body[r].str)) =>
           /\ calls[r] = <<>>
           /\ Done(r) => /\ response[r].status = 400
                         /\ response[r].success = FALSE

C2_Witness ==
  \E r \in Req :
    /\ endpoint[r] = "clean" /\ Done(r)
    /\ HasStringField(body[r], "url")
    /\ Len(body[r].str) >= 4
    /\ ~TrimmedEndsInTxt(body[r].str)
    /\ response[r].status = 400

\* ------------------------------------------------------------------ C3
\* C3: in /api/clean a request whose JSON body is absent, null, empty or
\* lacks the "url" field gets 400 with success false and an error message,
\* and no core operation is invoked for it.
NoUrlField(b) ==
  \/ b.jtype \in {"invalid", "null"}
  \/ ~b.truthy
  \/ b.jtype = "object" /\ "url" \notin b.members

C3_MissingUrlIs400 ==
  \A r \in Req :
    (endpoint[r] = "clean" /\ NoUrlField(body[r])) =>
      /\ calls[r] = <<>>
      /\ Done(r) => /\ response[r].status = 400
                    /\ response[r].success = FALSE
                    /\ "error" \in response[r].fields
                    /\ response[r].error # <<>>

\* ------------------------------------------------------------------ C4
\* C4: in /api/analyze a request that lacks the "text" field, or whose text
\* is empty or only whitespace, gets 400 with success false and an error
\* message, and neither normalize nor statistics is invoked for it.
NoUsableText(b) ==
  \/ b.jtype = "invalid"
  \/ "text" \notin b.members
  \/ HasStringField(b, "text") /\ ~HasNonBlank(b.str)

C4_MissingTextIs400 ==
  \A r \in Req :
    (endpoint[r] = "analyze" /\ NoUsableText(body[r])) =>
      /\ calls[r] = <<>>
      /\ Done(r) => /\ response[r].status = 400
                    /\ response[r].success = FALSE
                    /\ "error" \in response[r].fields
                    /\ response[r].error # <<>>

\* ------------------------------------------------------------------ C5
\* C5: a valid /api/clean request invokes fetch, strip, normalize, statistics,
\* summary in this order, each at most once and all five when none raises;
\* strip and normalize receive the output of the stage before them, and
\* statistics and summary (asked for 3 sentences) both receive the
\* normalized text.
CleanOrder == <<"fetch", "strip", "normalize", "statistics", "summary">>

C5_CleanPipelineOrder ==
  \A r \in Req :
    endpoint[r] = "clean" =>
      /\ IsPrefix(Ops(r), CleanOrder)
      /\ Len(rets[r]) = Len(calls[r])
      /\ calls[r] # <<>> => WellFormed(r)
      /\ \A i \in 1..Len(calls[r]) :
           /\ i \in {2, 3} => calls[r][i].arg = rets[r][i - 1].doc
           /\ i \in {4, 5} => calls[r][i].arg = rets[r][3].doc
           /\ i = 5 => calls[r][i].n = 3
      /\ (Done(r) /\ WellFormed(r) /\ ~Raised(r)) => Len(calls[r]) = 5

C5_Witness ==
  \E r \in Req :
    /\ endpoint[r] = "clean" /\ Done(r) /\ Len(calls[r]) = 5 /\ ~Raised(r)
    /\ rets[r][1].doc # rets[r][2].doc
    /\ rets[r][2].doc # rets[r][3].doc

\* ------------------------------------------------------------------ C6
\* C6: when a core operation raises in /api/clean or /api/analyze, the
\* request ends with 500, success false and an error message, no later stage
\* is invoked and none is invoked twice; every request ends with one
\* response, of status 200, 400 or 500, that is never replaced.
C6_RaiseEndsRequest ==
  \A r \in Req :
    IsApi(r) =>
      /\ \A i \in 1..Len(rets[r]) :
           rets[r][i].raised =>
             /\ i = Len(rets[r])
             /\ Len(calls[r]) = i
             /\ Done(r)
             /\ response[r].status = 500
             /\ response[r].success = FALSE
             /\ "error" \in response[r].fields
             /\ response[r].error = <<"Server error: ", rets[r][i].exc>>
      /\ \A i, j \in 1..Len(calls[r]) : calls[r][i].op = calls[r][j].op => i = j
      /\ Done(r) <=> response[r].status \in {200, 400, 500}
      /\ ~Done(r) => response[r] = NoResponse

C6_ResponseIsFinal ==
  \A r \in Req :
    Done(r) => /\ pc'[r] = "done"
               /\ response'[r] = response[r]
               /\ calls'[r] = calls[r]

\* C6: a raising core operation ends its request at once with a 500 error
\* response, nothing is invoked after it or twice, and the one response a
\* request gets (200, 400 or 500) is never replaced.
C6_NoEscape == [](C6_RaiseEndsRequest) /\ [][C6_ResponseIsFinal]_vars

C6_Witness ==
  \E r \in Req :
    /\ endpoint[r] = "clean" /\ Done(r)
    /\ Len(rets[r]) = 3 /\ rets[r][3].raised
    /\ response[r].status = 500

\* ------------------------------------------------------------------ C7
\* C7: in a 200 response of /api/clean, cleaned_text is the first 500
\* characters of the normalized text (a prefix of it, of length min(500, its
\* length), the whole of it when it has at most 500 characters); statistics
\* and summary are computed from the complete normalized text.
C7_CleanedTextIsPrefix ==
  \A r \in Req :
    (endpoint[r] = "clean" /\ Done(r) /\ response[r].status = 200) =>
      LET norm == rets[r][3].doc
          ct == response[r].cleaned_text
      IN /\ Len(rets[r]) = 5
         /\ IsPrefix(ct, norm)
         /\ Len(ct) = (IF Len(norm) < 500 THEN Len(norm) ELSE 500)
         /\ Len(norm) <= 500 => ct = norm
         /\ calls[r][4].op = "statistics" /\ calls[r][4].arg = norm
         /\ calls[r][5].op = "summary" /\ calls[r][5].arg = norm
         /\ response[r].statistics = rets[r][4].stats
         /\ response[r].summary = rets[r][5].doc

C7_Witness ==
  \E r \in Req :
    /\ endpoint[r] = "clean" /\ Done(r) /\ response[r].status = 200
    /\ Len(rets[r][3].doc) > 500
    /\ Len(response[r].cleaned_text) = 500

\* ------------------------------------------------------------------ C8
\* C8: the preprocessor reference is never reassigned and the handlers share
\* no mutable state: under any interleaving of concurrent requests each
\* request's response is the one it gets alone with the same core results.
FirstRaise(rs) == CHOOSE i \in 1..Len(rs) : rs[i].raised

SoloResponse(ep, b, rs) ==
  IF ep = "health" THEN HealthResponse
  ELSE IF ep = "clean" /\ ~CleanCheck(b).proceed THEN CleanCheck(b).resp
  ELSE IF ep = "analyze" /\ ~AnalyzeCheck(b).proceed THEN AnalyzeCheck(b).resp
  ELSE IF \E i \in 1..Len(rs) : rs[i].raised
    THEN [NoResponse EXCEPT !.status = 500, !.fields = {"success", "error"},
                            !.error = <<"Server error: ", rs[FirstRaise(rs)].exc>>]
  ELSE IF ep = "clean"
    THEN [NoResponse EXCEPT !.status = 200, !.success = TRUE,
                            !.fields = {"success", "cleaned_text", "statistics", "summary"},
                            !.cleaned_text = SubSeq(rs[3].doc, 1,
                                                    IF Len(rs[3].doc) < 500
                                                      THEN Len(rs[3].doc) ELSE 500),
                            !.statistics = rs[4].stats, !.summary = rs[5].doc]
  ELSE [NoResponse EXCEPT !.status = 200, !.success = TRUE,
                          !.fields = {"success", "statistics"},
                          !.statistics = rs[2].stats]

\* what each call of a request alone is passed, given the results before it
SoloArg(ep, b, rs, i) ==
  IF ep = "clean"
    THEN (IF i = 1 THEN CleanCheck(b).value
          ELSE IF i \in {2, 3} THEN rs[i - 1].doc ELSE rs[3].doc)
    ELSE (IF i = 1 THEN AnalyzeCheck(b).value ELSE rs[1].doc)

C8_NoSharedState ==
  /\ preprocessor = "TextPreprocessor()"
  /\ \A r \in Req :
       /\ \A i \in 1..Len(calls[r]) :
            calls[r][i].arg = SoloArg(endpoint[r], body[r], rets[r], i)
       /\ Done(r) => response[r] = SoloResponse(endpoint[r], body[r], rets[r])

C8_Witness ==
  \E r, q \in Req :
    /\ r # q /\ Done(r) /\ Done(q)
    /\ endpoint[r] = "clean" /\ endpoint[q] = "analyze"
    /\ response[r].status = 200 /\ response[q].status = 200
    /\ rets[r][3].doc # rets[q][1].doc

\* ------------------------------------------------------------------ C9
\* C9 as stated: every valid /api/analyze request invokes exactly two core
\* operations, normalize then statistics, once each.
C9_ExactlyTwoCalls ==
  \A r \in Req :
    (endpoint[r] = "analyze" /\ Done(r) /\ WellFormed(r)) =>
      Ops(r) = <<"normalize", "statistics">>

\* C9 as amended: a valid /api/analyze request invokes normalize with the
\* trimmed text and then, when normalize returned, statistics with the output
\* of normalize, each at most once; fetch, strip and summary are never
\* invoked; a 200 response carries statistics and no cleaned_text or summary.
C9_AnalyzePipeline ==
  \A r \in Req :
    endpoint[r] = "analyze" =>
      /\ IsPrefix(Ops(r), <<"normalize", "statistics">>)
      /\ calls[r] # <<>> => WellFormed(r)
      /\ (Done(r) /\ WellFormed(r)) => Len(calls[r]) >= 1
      /\ Len(calls[r]) >= 1 =>
           LET t == body[r].str
               a == calls[r][1].arg
           IN /\ a # <<>> /\ a[1] # " " /\ a[Len(a)] # " "
              /\ \E m \in 0..Len(t) :
                   /\ SubSeq(t, m + 1, m + Len(a)) = a
                   /\ \A k \in 1..m : t[k] = " "
                   /\ \A k \in (m + Len(a) + 1)..Len(t) : t[k] = " "
      /\ (Done(r) /\ Len(rets[r]) >= 1 /\ ~rets[r][1].raised) => Len(calls[r]) = 2
      /\ Len(calls[r]) = 2 => calls[r][2].arg = rets[r][1].doc
      /\ (Done(r) /\ response[r].status = 200) =>
           /\ Len(calls[r]) = 2
           /\ response[r].fields = {"success", "statistics"}
           /\ response[r].statistics = rets[r][2].stats

C9_Witness ==
  \E r \in Req :
    /\ endpoint[r] = "analyze" /\ Done(r) /\ response[r].status = 200
    /\ Len(body[r].str) > Len(calls[r][1].arg)

\* ----------------------------------------------------------------- C10
\* C10: in every response of /api/clean and /api/analyze, success is true
\* exactly when the status is 200 and the error field is present exactly
\* when success is false; a 400 or 500 response carries no statistics,
\* cleaned_text or summary.
C10_ResponseShape ==
  \A r \in Req :
    (IsApi(r) /\ Done(r)) =>
      /\ response[r].success <=> response[r].status = 200
      /\ "error" \in response[r].fields <=> ~response[r].success
      /\ response[r].status = 200 => "error" \notin response[r].fields
      /\ response[r].status \in {400, 500} =>
           response[r].fields \cap {"statistics", "cleaned_text", "summary"} = {}

C10_Witness ==
  \E r \in Req :
    /\ endpoint[r] = "clean" /\ Done(r) /\ response[r].status = 200
    /\ response[r].success /\ "error" \notin response[r].fields

====
